---- MODULE Spec2Model ----
(***************************************************************************)
(* Scroll-section tracker (App) and the parametric visualisation widgets   *)
(* (OperatorFamilyViz, IntegralSummationViz, CollapseThresholdChart) of    *)
(* the objective-reduction presentation page, as state machines.           *)
(*                                                                         *)
(* Numbers that are fractions in the source are kept exact:                *)
(*   scale is in hundredths (1.3 is 130), tauOR is a ratio [num, den].     *)
(***************************************************************************)
EXTENDS Integers, Sequences, FiniteSets

VARIABLES
    totalSections,  \* App: number of tracked sections of the page variant
    activeSection,  \* App: useState(0)
    queue,          \* IntersectionObserver: entries queued for the next callback
    scrollTarget,   \* last region scrollIntoView was called on (NoScroll: none yet)
    scrollCount,    \* number of scrollIntoView calls made so far
    lastOp,         \* the handler that ran last and its argument / result
    n,              \* IntegralSummationViz: useState(4)
    energy,         \* CollapseThresholdChart: useState(50)
    activeOps,      \* OperatorFamilyViz: useState({E, C, X, G})
    params,         \* OperatorFamilyViz: useState({distortion, speed})
    view,           \* OperatorFamilyViz: what the last render produced, with the useMemo cell
    copies,         \* the second and third OperatorFamilyViz, given the same clicks
    vizMounted,     \* IntegralSummationViz is mounted
    interval,       \* number of live setInterval timers of IntegralSummationViz
    appMounted,     \* App is mounted
    observer        \* number of connected IntersectionObservers of App

vars == <<totalSections, activeSection, queue, scrollTarget, scrollCount,
          lastOp, n, energy, activeOps, params, view, copies,
          vizMounted, interval, appMounted, observer>>

trackerVars == <<totalSections, activeSection, queue, scrollTarget, scrollCount>>
widgetVars == <<n, energy, activeOps, params, view, copies>>
lifeVars == <<vizMounted, interval, appMounted, observer>>

(* ------------------------------ bounds -------------------------------- *)

\* longest batch of entries one observer callback delivers
MaxBatch == 2
\* longest batch delivered while navigation is also being exercised
MaxNavBatch == 1
\* number of scrollIntoView calls followed
MaxScrolls == 2
\* jumpTo is tried with every index from -JumpSlack to totalSections - 1 + JumpSlack
JumpSlack == 1

(* --------------------------- SectionTracker --------------------------- *)

\* the page variants: five sections, or six
SectionCounts == {5, 6}

NoScroll == -1

\* the DOM element a section's ref callback stores, and one that is no section
Elem(i) == <<"section", i>>
OtherElem == <<"other", 0>>

\* sectionRefs.current once the sections have rendered
sectionRefs == [i \in 0..(totalSections - 1) |-> Elem(i)]

Elements == {Elem(i) : i \in 0..(totalSections - 1)} \cup {OtherElem}
Entries == [target : Elements, isIntersecting : BOOLEAN]

\* Array.prototype.findIndex(ref => ref === target): first match, or -1
FindIndex(refs, target) ==
    IF \E i \in DOMAIN refs : refs[i] = target
    THEN CHOOSE i \in DOMAIN refs :
            /\ refs[i] = target
            /\ \A j \in DOMAIN refs : refs[j] = target => i <= j
    ELSE -1

\* one iteration of entries.forEach: st is [active, writes]
ApplyEntryFirstWins(st, entry) ==
    IF entry.isIntersecting
    THEN LET index == FindIndex(sectionRefs, entry.target)
         IN IF index # -1
            THEN [active |-> IF st.writes = 0 THEN index ELSE st.active,
                  writes |-> st.writes + 1]
            ELSE st
    ELSE st

ApplyEntryNoGuard(st, entry) ==
    LET index == FindIndex(sectionRefs, entry.target)
    IN IF index # -1
       THEN [active |-> index, writes |-> st.writes + 1]
       ELSE st

ApplyEntryNoIndexCheck(st, entry) ==
    IF entry.isIntersecting
    THEN [active |-> FindIndex(sectionRefs, entry.target), writes |-> st.writes + 1]
    ELSE st

ApplyEntry(st, entry) ==
    IF entry.isIntersecting
    THEN LET index == FindIndex(sectionRefs, entry.target)
         IN IF index # -1
            THEN [active |-> index, writes |-> st.writes + 1]
            ELSE st
    ELSE st

ForEachEntryFirstOnly(st, entries) ==
    IF entries = <<>> THEN st ELSE ApplyEntry(st, Head(entries))

\* entries.forEach(...): the entries in delivery order
RECURSIVE ForEachEntry(_, _)
ForEachEntry(st, entries) ==
    IF entries = <<>>
    THEN st
    ELSE ForEachEntry(ApplyEntry(st, Head(entries)), Tail(entries))

\* the browser queues an entry for an observed element (or a stray one)
Enqueue(cap, entry) ==
    /\ observer > 0
    /\ Len(queue) < cap
    /\ queue' = Append(queue, entry)
    /\ UNCHANGED <<totalSections, activeSection, scrollTarget, scrollCount, lastOp>>
    /\ UNCHANGED widgetVars
    /\ UNCHANGED lifeVars

\* the observer callback, invoked with the queued entries
OnIntersection ==
    /\ observer > 0
    /\ queue # <<>>
    /\ LET res == ForEachEntry([active |-> activeSection, writes |-> 0], queue)
       IN /\ activeSection' = res.active
          /\ lastOp' = [op |-> "onIntersection", arg |-> res.writes]
    /\ queue' = <<>>
    /\ UNCHANGED <<totalSections, scrollTarget, scrollCount>>
    /\ UNCHANGED widgetVars
    /\ UNCHANGED lifeVars

InRange(index) == index >= 0 /\ index < totalSections

Clamp(x, lo, hi) == IF x < lo THEN lo ELSE IF x > hi THEN hi ELSE x

scrollToSectionClamps(index) ==
    /\ scrollTarget' = Clamp(index, 0, totalSections - 1)
    /\ scrollCount' = scrollCount + 1
    /\ activeSection' = activeSection

scrollToSectionOffByOne(index) ==
    /\ IF index >= 0 /\ index <= totalSections
       THEN /\ scrollTarget' = index
            /\ scrollCount' = scrollCount + 1
       ELSE UNCHANGED <<scrollTarget, scrollCount>>
    /\ activeSection' = activeSection

scrollToSectionSetsActive(index) ==
    IF index >= 0 /\ index < totalSections
    THEN /\ scrollTarget' = index
         /\ scrollCount' = scrollCount + 1
         /\ activeSection' = index
    ELSE UNCHANGED <<scrollTarget, scrollCount, activeSection>>

\* scrollToSection(index): the guard, then ref?.scrollIntoView(); no setActiveSection
scrollToSection(index) ==
    /\ IF index >= 0 /\ index < totalSections
       THEN IF index \in DOMAIN sectionRefs
            THEN /\ scrollTarget' = index
                 /\ scrollCount' = scrollCount + 1
            ELSE UNCHANGED <<scrollTarget, scrollCount>>
       ELSE UNCHANGED <<scrollTarget, scrollCount>>
    /\ activeSection' = activeSection

\* onClick of the Previous (d = -1) and Next (d = 1) buttons
Navigate(d) ==
    /\ scrollCount < MaxScrolls
    /\ scrollToSection(activeSection + d)
    /\ lastOp' = [op |-> "navigate", arg |-> d]
    /\ UNCHANGED <<totalSections, queue>>
    /\ UNCHANGED widgetVars
    /\ UNCHANGED lifeVars

\* onClick of a pagination dot or of the hero button: scrollToSection(k)
JumpTo(k) ==
    /\ scrollCount < MaxScrolls
    /\ scrollToSection(k)
    /\ lastOp' = [op |-> "jumpTo", arg |-> k]
    /\ UNCHANGED <<totalSections, queue>>
    /\ UNCHANGED widgetVars
    /\ UNCHANGED lifeVars

JumpArgs == (0 - JumpSlack)..(totalSections - 1 + JumpSlack)

\* disabled={activeSection === 0} of the Previous button
prevDisabled == activeSection = 0

nextDisabledOffByOne == activeSection = totalSections

\* disabled={activeSection === totalSections - 1} of the Next button
nextDisabled == activeSection = totalSections - 1

\* activeSection === idx ? highlighted : plain, for the dot idx
dotHighlighted(idx) == activeSection = idx

\* a click on the Previous button: a disabled button gets no click
ClickPrevious == ~prevDisabled /\ Navigate(-1)

\* a click on the Next button
ClickNext == ~nextDisabled /\ Navigate(1)

\* a click on the dot idx
ClickDot(idx) == JumpTo(idx)

\* the smooth scroll started by scrollIntoView comes to rest on its target: the
\* callback gets the entries queued on the way and the target's entry last
ScrollSettles ==
    /\ observer > 0
    /\ scrollTarget # NoScroll
    /\ LET batch == Append(queue, [target |-> Elem(scrollTarget), isIntersecting |-> TRUE])
           res == ForEachEntry([active |-> activeSection, writes |-> 0], batch)
       IN /\ activeSection' = res.active
          /\ lastOp' = [op |-> "scrollSettles", arg |-> res.writes]
    /\ queue' = <<>>
    /\ scrollTarget' = NoScroll
    /\ UNCHANGED <<totalSections, scrollCount>>
    /\ UNCHANGED widgetVars
    /\ UNCHANGED lifeVars

(* ------------------------ IntegralSummationViz ------------------------ *)

setNResetsLate(prev) == IF prev > 64 THEN 4 ELSE prev * 2

setNSaturates(prev) == IF prev >= 64 THEN 64 ELSE prev * 2

\* setN(prev => prev >= 64 ? 4 : prev * 2)
setN(prev) == IF prev >= 64 THEN 4 ELSE prev * 2

TickSharesState ==
    /\ interval > 0
    /\ n' = setN(n)
    /\ energy' = n
    /\ lastOp' = [op |-> "tick", arg |-> 0]
    /\ UNCHANGED <<activeOps, params, view, copies>>
    /\ UNCHANGED trackerVars
    /\ UNCHANGED lifeVars

\* the setInterval callback, every 1500 ms
Tick ==
    /\ interval > 0
    /\ n' = setN(n)
    /\ lastOp' = [op |-> "tick", arg |-> 0]
    /\ UNCHANGED <<energy, activeOps, params, view, copies>>
    /\ UNCHANGED trackerVars
    /\ UNCHANGED lifeVars

(* numbers with four decimals: FixedOne stands for 1 *)
FixedOne == 10000
\* Math.PI / 2 to four decimals
HalfPi == 15708

Abs(v) == IF v < 0 THEN 0 - v ELSE v

\* the series t - t^3/3! + t^5/5! - ... from the term of degree k on, for 0 <= t <= pi/2
RECURSIVE SinSeries(_, _, _, _)
SinSeries(term, t2, k, sign) ==
    IF term = 0 \/ k > 15
    THEN 0
    ELSE sign * term
         + SinSeries((term * t2) \div (FixedOne * (k + 1) * (k + 2)), t2, k + 2, 0 - sign)

\* Math.sin of an angle in [0, 2 pi), by quadrant
Sin(a) ==
    LET q(t) == SinSeries(t, (t * t) \div FixedOne, 1, 1)
    IN IF a <= HalfPi THEN q(a)
       ELSE IF a <= 2 * HalfPi THEN q(2 * HalfPi - a)
       ELSE IF a <= 3 * HalfPi THEN 0 - q(a - 2 * HalfPi)
       ELSE 0 - q(4 * HalfPi - a)

\* the series 1 - y + y^2/2! - ... from the term of degree k on, for 0 <= y <= 2
RECURSIVE ExpSeries(_, _, _, _)
ExpSeries(term, y, k, sign) ==
    IF term = 0 \/ k > 20
    THEN 0
    ELSE sign * term + ExpSeries((term * y) \div (FixedOne * (k + 1)), y, k + 1, 0 - sign)

\* Math.exp(-y) for 0 <= y <= 2
ExpNeg(y) == ExpSeries(FixedOne, y, 0, 1)

heightPctNoAbs(i, bars) ==
    LET x == (i * FixedOne) \div bars
        wave == Sin((x * 4 * HalfPi) \div FixedOne)
        decay == ExpNeg(x * 2)
    IN 20 * 100 + (((wave * 60) \div 100) * decay) \div FixedOne

\* const x = i / n;
\* heightPct = 20 + Math.abs(Math.sin(x * Math.PI * 2) * 60 * Math.exp(-x * 2)),
\* in hundredths of a percent
heightPct(i, bars) ==
    LET x == (i * FixedOne) \div bars
        wave == Sin((x * 4 * HalfPi) \div FixedOne)
        decay == ExpNeg(x * 2)
    IN 20 * 100 + Abs((((wave * 60) \div 100) * decay) \div FixedOne)

\* Array.from({ length: n }).map((_, i) => ...): the heights of the bars, left to right
Bars(bars) == [i \in 0..(bars - 1) |-> heightPct(i, bars)]

(* ------------------------------ sliders ------------------------------- *)

\* the value string of a range input, as its decimal digits
RECURSIVE ToDigits(_)
ToDigits(v) == IF v < 10 THEN <<v>> ELSE Append(ToDigits(v \div 10), v % 10)

\* parseInt of a digit string, most significant digit first
RECURSIVE ParseIntFrom(_, _)
ParseIntFrom(acc, digits) ==
    IF digits = <<>>
    THEN acc
    ELSE ParseIntFrom(acc * 10 + Head(digits), Tail(digits))

ParseInt(digits) == ParseIntFrom(0, digits)

\* the "-" of a bar key, among decimal digits
Dash == -1

barKeyIndexOnly(bars, i) == ToDigits(i)

\* key={`${n}-${i}`}: the digits of n, a dash, the digits of i
barKey(bars, i) == ToDigits(bars) \o <<Dash>> \o ToDigits(i)

\* the keys of the bars rendered for n: a bar whose key was rendered before is
\* kept by the renderer, any other is mounted anew
BarKeys(bars) == {barKey(bars, i) : i \in DOMAIN Bars(bars)}

\* e.target.value of <input type="range" min max>: a whole number in [min, max]
RangeValues(min, max) == {ToDigits(v) : v \in min..max}

(* ----------------------- CollapseThresholdChart ----------------------- *)

EnergyMin == 10
EnergyMax == 100

\* exact quotients: a / b and r * k
RatDiv(a, b) == [num |-> a, den |-> b]
RatMul(r, k) == [num |-> r.num * k, den |-> r.den]
RatLess(a, b) == a.num * b.den < b.num * a.den
RatEq(a, b) == a.num * b.den = b.num * a.den

\* Number.prototype.toFixed(1), as a count of tenths
ToFixed1(r) == (20 * r.num + r.den) \div (2 * r.den)

thresholdMetStrict(e) == e > 40

\* const thresholdMet = energy >= 40
thresholdMet(e) == e >= 40

tauORInverted(e) == RatMul(RatDiv(e, 30), 100)

tauORUnscaled(e) == RatDiv(30, e)

\* const tauOR = (30 / energy) * 100
tauOR(e) == RatMul(RatDiv(30, e), 100)

\* {thresholdMet ? "COLLAPSE_IMMINENT" : "STATE_STABLE"}
OutputState(e) == IF thresholdMet(e) THEN "COLLAPSE_IMMINENT" ELSE "STATE_STABLE"

\* onChange of the energy slider: setEnergy(parseInt(e.target.value))
ChangeEnergy(value) ==
    /\ energy' = ParseInt(value)
    /\ lastOp' = [op |-> "setEnergy", arg |-> 0]
    /\ UNCHANGED <<n, activeOps, params, view, copies>>
    /\ UNCHANGED trackerVars
    /\ UNCHANGED lifeVars

(* ------------------------- OperatorFamilyViz -------------------------- *)

OpKeys == <<"E", "C", "X", "G">>

Cyan == "#00f0ff"
Yellow == "#fcee0a"
Red == "#ff003c"
Purple == "#710193"
GlowLow == "0 0 30px rgba(0, 240, 255, 0.4)"
GlowHigh == "0 0 50px rgba(255, 0, 60, 0.6)"

DistortionMin == 0
DistortionMax == 100
\* the positions of the speed slider (min, unity, max of its 10..150 range)
SpeedStops == {10, 50, 150}

getOpStyleScaleAssign(ops, p) ==
    LET color0 == IF ops.E THEN Yellow ELSE Cyan
        scale1 == IF ops.C THEN 130 ELSE 100
        color2 == IF ops.X THEN Red ELSE color0
    IN [scale |-> IF ops.G THEN 80 ELSE scale1,
        rotate |-> IF ops.X THEN 45 ELSE 0,
        color |-> IF ops.G THEN Purple ELSE color2,
        glow |-> IF ops.C THEN GlowHigh ELSE GlowLow,
        totalDistortion |-> (IF ops.G THEN 250 ELSE 0) + p.distortion * 4]

getOpStyleGKeepsScale(ops, p) ==
    LET color1 == IF ops.E THEN Yellow ELSE Cyan
        scale2 == IF ops.C THEN 130 ELSE 100
        color3 == IF ops.X THEN Red ELSE color1
    IN [scale |-> scale2,
        rotate |-> IF ops.X THEN 45 ELSE 0,
        color |-> IF ops.G THEN Purple ELSE color3,
        glow |-> IF ops.C THEN GlowHigh ELSE GlowLow,
        totalDistortion |-> (IF ops.G THEN 250 ELSE 0) + p.distortion * 4]

getOpStyleElseIf(ops, p) ==
    LET first == IF ops.E THEN "E" ELSE IF ops.C THEN "C" ELSE IF ops.X THEN "X"
                 ELSE IF ops.G THEN "G" ELSE "none"
    IN [scale |-> IF first = "C" THEN 130 ELSE IF first = "G" THEN 80 ELSE 100,
        rotate |-> IF first = "X" THEN 45 ELSE 0,
        color |-> IF first = "E" THEN Yellow ELSE IF first = "X" THEN Red
                  ELSE IF first = "G" THEN Purple ELSE Cyan,
        glow |-> IF first = "C" THEN GlowHigh ELSE GlowLow,
        totalDistortion |-> (IF ops.G THEN 250 ELSE 0) + p.distortion * 4]

getOpStyleEnergyLast(ops, p) ==
    LET color3 == IF ops.X THEN Red ELSE Cyan
        color1 == IF ops.E THEN Yellow ELSE color3
        scale2 == IF ops.C THEN 130 ELSE 100
    IN [scale |-> IF ops.G THEN (scale2 * 8) \div 10 ELSE scale2,
        rotate |-> IF ops.X THEN 45 ELSE 0,
        color |-> IF ops.G THEN Purple ELSE color1,
        glow |-> IF ops.C THEN GlowHigh ELSE GlowLow,
        totalDistortion |-> (IF ops.G THEN 250 ELSE 0) + p.distortion * 4]

getOpStyleHalfDistortion(ops, p) ==
    LET color1 == IF ops.E THEN Yellow ELSE Cyan
        scale2 == IF ops.C THEN 130 ELSE 100
        color3 == IF ops.X THEN Red ELSE color1
    IN [scale |-> IF ops.G THEN (scale2 * 8) \div 10 ELSE scale2,
        rotate |-> IF ops.X THEN 45 ELSE 0,
        color |-> IF ops.G THEN Purple ELSE color3,
        glow |-> IF ops.C THEN GlowHigh ELSE GlowLow,
        totalDistortion |-> (IF ops.G THEN 250 ELSE 0) + p.distortion * 5]

\* getOpStyle(): scale in hundredths, totalDistortion in tenths.
\* The four ifs run in source order; each let is the variable after that if.
getOpStyle(ops, p) ==
    LET scale0 == 100
        rotate0 == 0
        color0 == Cyan
        glow0 == GlowLow
        \* if (activeOps.E) color = yellow
        color1 == IF ops.E THEN Yellow ELSE color0
        \* if (activeOps.C) { scale = 1.3; glow = red glow }
        scale2 == IF ops.C THEN 130 ELSE scale0
        glow2 == IF ops.C THEN GlowHigh ELSE glow0
        \* if (activeOps.X) { rotate = 45; color = red }
        rotate3 == IF ops.X THEN 45 ELSE rotate0
        color3 == IF ops.X THEN Red ELSE color1
        \* if (activeOps.G) { color = purple; scale = scale * 0.8 }
        color4 == IF ops.G THEN Purple ELSE color3
        scale4 == IF ops.G THEN (scale2 * 8) \div 10 ELSE scale2
        baseDistort == IF ops.G THEN 250 ELSE 0
        totalDistortion == baseDistort + p.distortion * 4
    IN [scale |-> scale4, rotate |-> rotate3, color |-> color4, glow |-> glow2,
        totalDistortion |-> totalDistortion]

speedMultiplierPercent(speed) == RatDiv(speed, 100)

\* const speedMultiplier = params.speed / 50
speedMultiplier(speed) == RatDiv(speed, 50)

getOpStyleSecondScaleAssign(ops) ==
    LET color1 == IF ops.E THEN Yellow ELSE Cyan
        color3 == IF ops.X THEN Red ELSE color1
    IN [scale |-> IF ops.G THEN 80 ELSE IF ops.C THEN 130 ELSE 100,
        rotate |-> IF ops.X THEN 45 ELSE 0,
        color |-> IF ops.G THEN Purple ELSE color3,
        distort |-> IF ops.G THEN 200 ELSE 0,
        glow |-> IF ops.C THEN GlowHigh ELSE GlowLow]

\* getOpStyle() of the second, slider-less copy: distort = 20 under G (in tenths)
getOpStyleSecond(ops) ==
    LET scale0 == 100
        rotate0 == 0
        color0 == Cyan
        distort0 == 0
        glow0 == GlowLow
        color1 == IF ops.E THEN Yellow ELSE color0
        scale2 == IF ops.C THEN 130 ELSE scale0
        glow2 == IF ops.C THEN GlowHigh ELSE glow0
        rotate3 == IF ops.X THEN 45 ELSE rotate0
        color3 == IF ops.X THEN Red ELSE color1
        color4 == IF ops.G THEN Purple ELSE color3
        scale4 == IF ops.G THEN (scale2 * 8) \div 10 ELSE scale2
        distort4 == IF ops.G THEN 200 ELSE distort0
    IN [scale |-> scale4, rotate |-> rotate3, color |-> color4, distort |-> distort4,
        glow |-> glow2]

\* borderRadius: activeOps.G ? ["50%", "40%", "60%", "50%"] : "50%", second copy
borderRadiusSecond(ops) == IF ops.G THEN <<50, 40, 60, 50>> ELSE <<50>>

\* getOpStyle() of the third copy
getOpStyleThird(ops, p) ==
    LET color1 == IF ops.E THEN Yellow ELSE Cyan
        scale2 == IF ops.C THEN 130 ELSE 100
        glow2 == IF ops.C THEN GlowHigh ELSE GlowLow
        rotate3 == IF ops.X THEN 45 ELSE 0
        color3 == IF ops.X THEN Red ELSE color1
        color4 == IF ops.G THEN Purple ELSE color3
        scale4 == IF ops.G THEN (scale2 * 8) \div 10 ELSE scale2
        baseDistort == IF ops.G THEN 250 ELSE 0
    IN [scale |-> scale4, rotate |-> rotate3, color |-> color4, glow |-> glow2,
        totalDistortion |-> baseDistort + p.distortion * 4]

\* Math.max(a, b) of two quotients with positive denominators
RatMax(a, b) == IF RatLess(a, b) THEN b ELSE a

\* const speedMultiplier = Math.max(0.1, params.speed / 50), the later copy of the widget
speedMultiplierFloored(speed) == RatMax(RatDiv(1, 10), RatDiv(speed, 50))

\* duration: 4 / speedMultiplier, animationDuration: 10 / speedMultiplier
Period(base, m) == [num |-> base * m.den, den |-> m.num]

\* the percentages of one border-radius keyframe, in hundredths of a percent
Circle == <<5000, 5000, 5000, 5000>>

borderRadiusKeyframesOpen(d) ==
    IF d <= 50
    THEN <<Circle>>
    ELSE << Circle,
            <<5000 - d * 10, 5000 + d * 10, 5000 - d * 6, 5000 + d * 6>>,
            <<5000 + d * 5, 5000 - d * 5, 5000 + d * 10, 5000 - d * 10>>,
            <<5000 - d * 8, 5000 + d * 8, 5000 + d * 4, 5000 - d * 4>> >>

\* the useMemo body: d is style.totalDistortion in tenths; if (d <= 5) the circle alone
borderRadiusKeyframes(d) ==
    IF d <= 50
    THEN <<Circle>>
    ELSE << Circle,
            <<5000 - d * 10, 5000 + d * 10, 5000 - d * 6, 5000 + d * 6>>,
            <<5000 + d * 5, 5000 - d * 5, 5000 + d * 10, 5000 - d * 10>>,
            <<5000 - d * 8, 5000 + d * 8, 5000 + d * 4, 5000 - d * 4>>,
            Circle >>

\* useMemo(fn, [dep]): the cached value while the dependency is the same
useMemo(prevDep, prevValue, dep, fresh) == IF prevDep = dep THEN prevValue ELSE fresh

RenderKeepsStyle(ops, p, prev) ==
    LET style == getOpStyle(ops, p)
    IN [style |-> prev.style,
        speedMultiplier |-> speedMultiplier(p.speed),
        memoDep |-> style.totalDistortion,
        keyframes |-> useMemo(prev.memoDep, prev.keyframes, style.totalDistortion,
                              borderRadiusKeyframes(style.totalDistortion))]

\* one render of OperatorFamilyViz after a state change; prev is the render before
Render(ops, p, prev) ==
    LET style == getOpStyle(ops, p)
    IN [style |-> style,
        speedMultiplier |-> speedMultiplier(p.speed),
        memoDep |-> style.totalDistortion,
        keyframes |-> useMemo(prev.memoDep, prev.keyframes, style.totalDistortion,
                              borderRadiusKeyframes(style.totalDistortion))]

\* the first render: the memo cell is filled
FirstRender(ops, p) ==
    LET style == getOpStyle(ops, p)
    IN [style |-> style,
        speedMultiplier |-> speedMultiplier(p.speed),
        memoDep |-> style.totalDistortion,
        keyframes |-> borderRadiusKeyframes(style.totalDistortion)]

toggledExclusive(prev, key) == [k \in DOMAIN prev |-> k = key /\ ~prev[key]]

\* prev => ({...prev, [key]: !prev[key]})
toggled(prev, key) == [prev EXCEPT ![key] = ~prev[key]]

\* toggleOp(key): setActiveOps(prev => ({...prev, [key]: !prev[key]}))
toggleOp(key) ==
    /\ activeOps' = toggled(activeOps, key)
    /\ view' = Render(activeOps', params, view)
    /\ copies' = [copies EXCEPT !.second.activeOps = toggled(@, key),
                               !.third.activeOps = toggled(@, key)]
    /\ lastOp' = [op |-> "toggleOp", arg |-> CHOOSE i \in 1..Len(OpKeys) : OpKeys[i] = key]
    /\ UNCHANGED <<n, energy, params>>
    /\ UNCHANGED trackerVars
    /\ UNCHANGED lifeVars

\* onChange of the distortion slider
ChangeDistortion(value) ==
    /\ params' = [params EXCEPT !.distortion = ParseInt(value)]
    /\ view' = Render(activeOps, params', view)
    /\ copies' = [copies EXCEPT !.third.params.distortion = ParseInt(value)]
    /\ lastOp' = [op |-> "setDistortion", arg |-> 0]
    /\ UNCHANGED <<n, energy, activeOps>>
    /\ UNCHANGED trackerVars
    /\ UNCHANGED lifeVars

\* onChange of the speed slider
ChangeSpeed(value) ==
    /\ params' = [params EXCEPT !.speed = ParseInt(value)]
    /\ view' = Render(activeOps, params', view)
    /\ copies' = [copies EXCEPT !.third.params.speed = ParseInt(value)]
    /\ lastOp' = [op |-> "setSpeed", arg |-> 0]
    /\ UNCHANGED <<n, energy, activeOps>>
    /\ UNCHANGED trackerVars
    /\ UNCHANGED lifeVars

(* ------------------------ mounting, unmounting ------------------------ *)

clearIntervalMissing(timers) == timers

\* return () => clearInterval(interval): the timer of this mount is released
clearInterval(timers) == timers - 1

\* return () => observer.disconnect(): the observer of this mount stops observing
disconnect(observers) == observers - 1

\* IntegralSummationViz mounts: useState(4), and the effect starts one timer
MountViz ==
    /\ ~vizMounted
    /\ vizMounted' = TRUE
    /\ n' = 4
    /\ interval' = interval + 1
    /\ lastOp' = [op |-> "mountViz", arg |-> 0]
    /\ UNCHANGED <<energy, activeOps, params, view, copies, appMounted, observer>>
    /\ UNCHANGED trackerVars

\* IntegralSummationViz unmounts: the effect's cleanup runs
UnmountViz ==
    /\ vizMounted
    /\ vizMounted' = FALSE
    /\ interval' = clearInterval(interval)
    /\ lastOp' = [op |-> "unmountViz", arg |-> 0]
    /\ UNCHANGED <<n, energy, activeOps, params, view, copies, appMounted, observer>>
    /\ UNCHANGED trackerVars

\* App mounts: useState(0), and the effect creates one observer over the sections
MountApp ==
    /\ ~appMounted
    /\ appMounted' = TRUE
    /\ activeSection' = 0
    /\ observer' = observer + 1
    /\ queue' = <<>>
    /\ lastOp' = [op |-> "mountApp", arg |-> 0]
    /\ UNCHANGED <<totalSections, scrollTarget, scrollCount, vizMounted, interval>>
    /\ UNCHANGED widgetVars

\* App unmounts: the effect's cleanup runs; entries not yet delivered are dropped
UnmountApp ==
    /\ appMounted
    /\ appMounted' = FALSE
    /\ observer' = disconnect(observer)
    /\ queue' = <<>>
    /\ lastOp' = [op |-> "unmountApp", arg |-> 0]
    /\ UNCHANGED <<totalSections, activeSection, scrollTarget, scrollCount, vizMounted, interval>>
    /\ UNCHANGED widgetVars

(* ------------------------- range input edges -------------------------- *)

SpeedMin == 10
SpeedMax == 150

\* how far past an edge of its track a slider is asked to go
RawSlack == 2

rangeValueUnchecked(raw, min, max) == IF raw < 0 THEN <<raw>> ELSE ToDigits(raw)

\* <input type="range" min max>: a position asked for outside the track gives the
\* nearest edge as e.target.value
rangeValue(raw, min, max) ==
    ToDigits(IF raw < min THEN min ELSE IF raw > max THEN max ELSE raw)

\* positions around both edges of a track
EdgeRaws(min, max) ==
    ((min - RawSlack)..(min + RawSlack)) \cup ((max - RawSlack)..(max + RawSlack))

SlideEnergy(raw) == ChangeEnergy(rangeValue(raw, EnergyMin, EnergyMax))
SlideDistortion(raw) == ChangeDistortion(rangeValue(raw, DistortionMin, DistortionMax))
SlideSpeed(raw) == ChangeSpeed(rangeValue(raw, SpeedMin, SpeedMax))

(* ----------------------------- the page ------------------------------- *)

InitTracker ==
    /\ totalSections \in SectionCounts
    /\ activeSection = 0
    /\ queue = <<>>
    /\ scrollTarget = NoScroll
    /\ scrollCount = 0
    /\ lastOp = [op |-> "mount", arg |-> 0]
    /\ appMounted = TRUE
    /\ observer = 1

InitWidgets ==
    /\ n = 4
    /\ vizMounted = TRUE
    /\ interval = 1
    /\ energy = 50
    /\ activeOps = [E |-> TRUE, C |-> FALSE, X |-> FALSE, G |-> FALSE]
    /\ params = [distortion |-> 20, speed |-> 50]
    /\ view = FirstRender(activeOps, params)
    /\ copies = [second |-> [activeOps |-> [E |-> TRUE, C |-> FALSE, X |-> FALSE, G |-> FALSE]],
                 third |-> [activeOps |-> [E |-> TRUE, C |-> FALSE, X |-> FALSE, G |-> FALSE],
                            params |-> [distortion |-> 30, speed |-> 50]]]

Init == InitTracker /\ InitWidgets

\* the observer alone: batches of up to MaxBatch entries
NextObserver ==
    \/ \E e \in Entries : Enqueue(MaxBatch, e)
    \/ OnIntersection

SpecObserver == Init /\ [][NextObserver]_vars

\* the tracker: navigation, jumps and observer callbacks
NextTracker ==
    \/ \E e \in Entries : Enqueue(MaxNavBatch, e)
    \/ OnIntersection
    \/ \E d \in {-1, 1} : Navigate(d)
    \/ \E k \in JumpArgs : JumpTo(k)

SpecTracker == Init /\ [][NextTracker]_vars

\* the timer-driven chart and the threshold chart
NextViz ==
    \/ Tick
    \/ \E value \in RangeValues(EnergyMin, EnergyMax) : ChangeEnergy(value)

\* the widgets are the same on every page variant: the five-section page is taken
InitPage == Init /\ totalSections = 5

SpecViz == InitPage /\ [][NextViz]_vars

\* the operator diagram: four toggles and two sliders
NextOp ==
    \/ \E i \in 1..Len(OpKeys) : toggleOp(OpKeys[i])
    \/ \E value \in RangeValues(DistortionMin, DistortionMax) : ChangeDistortion(value)
    \/ \E value \in {ToDigits(v) : v \in SpeedStops} : ChangeSpeed(value)

SpecOp == InitPage /\ [][NextOp]_vars

\* the three sliders pushed to and past their edges
NextSliders ==
    \/ \E raw \in EdgeRaws(EnergyMin, EnergyMax) : SlideEnergy(raw)
    \/ \E raw \in EdgeRaws(DistortionMin, DistortionMax) : SlideDistortion(raw)
    \/ \E raw \in EdgeRaws(SpeedMin, SpeedMax) : SlideSpeed(raw)
    \/ toggleOp("G")

SpecSliders == InitPage /\ [][NextSliders]_vars

\* the speed slider over its whole track, and past it
NextSpeed ==
    \/ \E raw \in (SpeedMin - RawSlack)..(SpeedMax + RawSlack) : SlideSpeed(raw)
    \/ \E i \in 1..Len(OpKeys) : toggleOp(OpKeys[i])

SpecSpeed == InitPage /\ [][NextSpeed]_vars

\* the two registrations over mounts and unmounts; each component is taken on its own
NextLifecycle ==
    \/ MountViz
    \/ UnmountViz
    \/ Tick
    \/ MountApp
    \/ UnmountApp
    \/ \E e \in Entries : Enqueue(MaxNavBatch, e)
    \/ OnIntersection

SpecLifecycle == InitPage /\ [][NextLifecycle]_vars

\* the whole page: the tracker and the three widgets interleaved, each widget
\* with one input value per control
NextPage ==
    \/ Tick
    \/ ChangeEnergy(ToDigits(EnergyMax))
    \/ toggleOp("G")
    \/ ChangeDistortion(ToDigits(DistortionMax))
    \/ ChangeSpeed(ToDigits(SpeedMax))
    \/ \E d \in {-1, 1} : Navigate(d)
    \/ \E e \in {x \in Entries : x.isIntersecting} : Enqueue(1, e)
    \/ OnIntersection

SpecPage == InitPage /\ [][NextPage]_vars

\* the four toggles with both sliders at the ends of their tracks
NextToggles ==
    \/ \E i \in 1..Len(OpKeys) : toggleOp(OpKeys[i])
    \/ \E v \in {DistortionMin, DistortionMax} : ChangeDistortion(ToDigits(v))
    \/ \E v \in SpeedStops : ChangeSpeed(ToDigits(v))

SpecToggles == InitPage /\ [][NextToggles]_vars

\* the tracker with scrolls that come to rest: every scroll still under way
\* eventually settles
NextScroll ==
    \/ \E e \in {x \in Entries : x.isIntersecting} : Enqueue(1, e)
    \/ OnIntersection
    \/ \E d \in {-1, 1} : Navigate(d)
    \/ \E k \in 0..(totalSections - 1) : JumpTo(k)
    \/ ScrollSettles

SpecScroll == Init /\ [][NextScroll]_vars /\ WF_vars(ScrollSettles)

\* the charts while mounted: the interval timer keeps firing
SpecTicks == InitPage /\ [][NextViz]_vars /\ WF_vars(Tick)

\* the floating navigation controls as the user can operate them
NextControls ==
    \/ \E e \in Entries : Enqueue(MaxNavBatch, e)
    \/ OnIntersection
    \/ ClickPrevious
    \/ ClickNext
    \/ \E idx \in 0..(totalSections - 1) : ClickDot(idx)

SpecControls == Init /\ [][NextControls]_vars

(* ------------------------ SectionTracker claims ----------------------- *)

\* positions of the batch q whose entry is intersecting and for a tracked region
TrackedIntersecting(q) ==
    {i \in 1..Len(q) :
        /\ q[i].isIntersecting
        /\ \E k \in 0..(totalSections - 1) : sectionRefs[k] = q[i].target}

MaxOf(S) == CHOOSE x \in S : \A y \in S : y <= x

\* C1: an observer callback leaves activeSection at the region of the last
\* intersecting tracked entry of the batch, in delivery order (last write wins);
\* a batch with no such entry leaves it as it was.
C1_LastWriteWins ==
    [][OnIntersection =>
        LET I == TrackedIntersecting(queue)
        IN IF I = {}
           THEN activeSection' = activeSection
           ELSE /\ activeSection' \in 0..(totalSections - 1)
                /\ sectionRefs[activeSection'] = queue[MaxOf(I)].target]_vars

\* a callback has applied two intersecting tracked entries of one batch
C1_Witness ==
    /\ lastOp.op = "onIntersection"
    /\ lastOp.arg >= 2
    /\ activeSection = 3

\* C2 as stated: navigate scrolls to clamp(a + d, 0, N-1) and sets it as activeSection.
C2_NavigateSetsActive ==
    [][\A d \in {-1, 1} :
        Navigate(d) =>
            LET t == Clamp(activeSection + d, 0, totalSections - 1)
            IN /\ scrollTarget' = t
               /\ activeSection' = t]_vars

\* C2 amended: navigate computes t = a + d; when t is in [0, N-1] it requests a
\* scroll to region t; it never writes activeSection itself; the callback that
\* delivers the intersecting entry of region t is what sets activeSection to t.
C2_NavigateScrollsOnly ==
    [][/\ \A d \in {-1, 1} :
            Navigate(d) =>
                /\ activeSection' = activeSection
                /\ InRange(activeSection + d) =>
                      /\ scrollTarget' = activeSection + d
                      /\ scrollCount' = scrollCount + 1
       /\ ( /\ OnIntersection
            /\ scrollTarget # NoScroll
            /\ queue = <<[target |-> sectionRefs[scrollTarget], isIntersecting |-> TRUE]>> )
          => activeSection' = scrollTarget]_vars

\* Next was clicked below the last section: the scroll is requested, activeSection waits
C2_Witness ==
    /\ lastOp = [op |-> "navigate", arg |-> 1]
    /\ scrollTarget = activeSection + 1
    /\ scrollCount > 0

\* C3: navigate(next) at N-1 and navigate(prev) at 0 change neither activeSection
\* nor the scroll requests, with five sections and with six.
C3_BoundaryNoOp ==
    [][/\ (Navigate(1) /\ activeSection = totalSections - 1)
            => UNCHANGED <<activeSection, scrollTarget, scrollCount>>
       /\ (Navigate(-1) /\ activeSection = 0)
            => UNCHANGED <<activeSection, scrollTarget, scrollCount>>]_vars

\* Next has run on the last section of the six-section page
C3_Witness ==
    /\ lastOp = [op |-> "navigate", arg |-> 1]
    /\ totalSections = 6
    /\ activeSection = totalSections - 1

\* C4: jumpTo(k) with k outside [0, N-1] changes nothing; with k inside it has
\* the effect of a navigate whose target is k: a scroll to k, activeSection kept.
C4_JumpTo ==
    [][\A k \in JumpArgs :
        JumpTo(k) =>
            IF k \in 0..(totalSections - 1)
            THEN /\ scrollTarget' = k
                 /\ scrollCount' = scrollCount + 1
                 /\ activeSection' = activeSection
            ELSE UNCHANGED trackerVars]_vars

\* jumpTo has run with the index one past the last section
C4_Witness ==
    /\ lastOp.op = "jumpTo"
    /\ lastOp.arg = totalSections
    /\ scrollCount = 1

\* C5: activeSection is one index in [0, N-1]; it is 0 on mount and only a
\* callback carrying an intersecting entry of a tracked region changes it.
C5_OneActive ==
    /\ activeSection = 0
    /\ [](activeSection \in 0..(totalSections - 1))
    /\ [][activeSection' # activeSection =>
            (OnIntersection /\ TrackedIntersecting(queue) # {})]_vars

\* a callback delivered only entries that write nothing, and the index is still 0
C5_Witness ==
    /\ lastOp = [op |-> "onIntersection", arg |-> 0]
    /\ activeSection = 0
    /\ scrollCount = MaxScrolls

\* C6: a callback whose entries are all non-intersecting keeps activeSection.
C6_NoIntersectionKeeps ==
    [][(OnIntersection /\ \A i \in 1..Len(queue) : ~queue[i].isIntersecting)
            => activeSection' = activeSection]_vars

\* after the index had moved to 2, a callback wrote nothing
C6_Witness ==
    /\ lastOp = [op |-> "onIntersection", arg |-> 0]
    /\ activeSection = 2

(* --------------------------- widget claims ---------------------------- *)

\* C7: n starts at 4, every tick takes n to 2n below 64 and to 4 at 64, and n
\* is always one of 4, 8, 16, 32, 64.
C7_PartitionCycle ==
    /\ n = 4
    /\ [](n \in {4, 8, 16, 32, 64})
    /\ [][Tick => IF n < 64 THEN n' = 2 * n ELSE n' = 4]_vars

\* a tick has taken n back to 4
C7_Witness ==
    /\ lastOp.op = "tick"
    /\ n = 4

\* C8: energy is in [10, 100]; thresholdMet is false on 10..39 and true on
\* 40..100, and the output state is COLLAPSE_IMMINENT exactly when it is true.
C8_Threshold ==
    /\ energy \in EnergyMin..EnergyMax
    /\ energy \in 10..39 =>
          /\ ~thresholdMet(energy)
          /\ OutputState(energy) = "STATE_STABLE"
    /\ energy \in 40..100 =>
          /\ thresholdMet(energy)
          /\ OutputState(energy) = "COLLAPSE_IMMINENT"

\* the slider has set the energy to the boundary value
C8_Witness ==
    /\ lastOp.op = "setEnergy"
    /\ energy = 40
    /\ n = 8

\* C9: tauOR is strictly decreasing over the whole energies 1..100 (the current
\* energy against every other, and the energies below the slider against each
\* other), and tauOR(30) is 100, shown as 100.0.
C9_TauDecreasing ==
    /\ \A e \in 1..EnergyMax :
          /\ e < energy => RatLess(tauOR(energy), tauOR(e))
          /\ energy < e => RatLess(tauOR(e), tauOR(energy))
    /\ \A e1, e2 \in 1..(EnergyMin - 1) :
          e1 < e2 => RatLess(tauOR(e2), tauOR(e1))
    /\ RatEq(tauOR(30), RatDiv(100, 1))
    /\ ToFixed1(tauOR(30)) = 1000

\* the slider has set the energy to 30
C9_Witness ==
    /\ lastOp.op = "setEnergy"
    /\ energy = 30
    /\ n = 4

\* the descriptor before any rule, and the rule of each toggle (scale in hundredths)
BaseDescriptor == [scale |-> 100, rotation |-> 0, color |-> Cyan, glow |-> GlowLow]

Rule(key, d) ==
    CASE key = "E" -> [d EXCEPT !.color = Yellow]
      [] key = "C" -> [d EXCEPT !.scale = (@ * 13) \div 10, !.glow = GlowHigh]
      [] key = "X" -> [d EXCEPT !.rotation = 45, !.color = Red]
      [] key = "G" -> [d EXCEPT !.color = Purple, !.scale = (@ * 8) \div 10]

\* the rules of the active toggles, applied in the order of keys
RECURSIVE ApplyRules(_, _, _)
ApplyRules(d, keys, ops) ==
    IF keys = <<>>
    THEN d
    ELSE ApplyRules(IF ops[Head(keys)] THEN Rule(Head(keys), d) ELSE d, Tail(keys), ops)

\* C10: for every toggle combination getOpStyle returns the base descriptor with
\* the rules of the active toggles applied in the order E, C, X, G.
C10_RulesInOrder ==
    LET s == getOpStyle(activeOps, params)
    IN [scale |-> s.scale, rotation |-> s.rotate, color |-> s.color, glow |-> s.glow]
          = ApplyRules(BaseDescriptor, OpKeys, activeOps)

\* all four toggles are active
C10_Witness ==
    /\ lastOp.op = "toggleOp"
    /\ \A i \in 1..Len(OpKeys) : activeOps[OpKeys[i]]

\* C11: toggling G on while E, C and X are off gives the purple colour and the
\* scale 0.8.
C11_GravityAlone ==
    [][(toggleOp("G") /\ ~activeOps.G /\ ~activeOps.E /\ ~activeOps.C /\ ~activeOps.X)
        => (view'.style.color = Purple /\ view'.style.scale = 80)]_vars

C11_Witness ==
    /\ lastOp = [op |-> "toggleOp", arg |-> 4]
    /\ activeOps = [E |-> FALSE, C |-> FALSE, X |-> FALSE, G |-> TRUE]
    /\ view.style.scale = 80

\* C12: with C and then X toggled on from the state with no toggle on, the
\* rotation is 45 degrees, the colour red and the scale 1.3.
C12_CoherenceThenCrossing ==
    [][(toggleOp("X") /\ ~activeOps.X /\ activeOps.C /\ ~activeOps.E /\ ~activeOps.G)
        => (/\ view'.style.rotate = 45
            /\ view'.style.color = Red
            /\ view'.style.scale = 130)]_vars

C12_Witness ==
    /\ lastOp = [op |-> "toggleOp", arg |-> 3]
    /\ activeOps = [E |-> FALSE, C |-> TRUE, X |-> TRUE, G |-> FALSE]
    /\ view.style.rotate = 45

(* the descriptor the claims name, read off a render *)
Descriptor(v) ==
    [scale |-> v.style.scale, rotation |-> v.style.rotate, color |-> v.style.color,
     glow |-> v.style.glow, distortion |-> v.style.totalDistortion,
     speedMultiplier |-> v.speedMultiplier]

\* C13: the descriptor shown after any sequence of toggles and slider changes is the
\* one a fresh render gives for the current toggles and sliders, so two histories
\* ending in the same toggles and sliders show the same descriptor; toggling C then
\* X and X then C give the same result.
C13_HistoryFree ==
    /\ Descriptor(view) = Descriptor(FirstRender(activeOps, params))
    /\ view.keyframes = FirstRender(activeOps, params).keyframes
    /\ LET cx == toggled(toggled(activeOps, "C"), "X")
           xc == toggled(toggled(activeOps, "X"), "C")
       IN Descriptor(Render(cx, params, Render(toggled(activeOps, "C"), params, view)))
          = Descriptor(Render(xc, params, Render(toggled(activeOps, "X"), params, view)))

C13_Witness ==
    /\ lastOp = [op |-> "toggleOp", arg |-> 2]
    /\ activeOps.C /\ activeOps.X
    /\ params.distortion = 63
    /\ params.speed = 150

(* every percentage of every keyframe of a render *)
Corners(v) == {v.keyframes[k][c] : k \in 1..Len(v.keyframes), c \in 1..4}

\* C14: the distortion amount is (25 if G else 0) + 0.4 * slider and every corner
\* percentage of the morph keyframes stays within 0% .. 100%.
C14_CornersInRange ==
    /\ view.style.totalDistortion = (IF activeOps.G THEN 250 ELSE 0) + 4 * params.distortion
    /\ \A c \in Corners(view) : 0 <= c /\ c <= 10000

\* C15: the shape runs through the five keyframes, the first and the last the
\* circle, exactly when the distortion amount is above 5; otherwise the keyframe
\* list is the circle alone.
C15_MorphAboveFive ==
    LET kf == view.keyframes
    IN IF view.style.totalDistortion > 50
       THEN Len(kf) = 5 /\ kf[1] = Circle /\ kf[5] = Circle
       ELSE kf = <<Circle>>

C15_Witness ==
    /\ lastOp.op = "setDistortion"
    /\ Len(view.keyframes) = 5
    /\ view.style.totalDistortion = 52

Registered ==
    /\ interval = (IF vizMounted THEN 1 ELSE 0)
    /\ observer = (IF appMounted THEN 1 ELSE 0)

\* C18: every mount holds exactly one timer (chart) or one observer (page); after
\* the unmount the registration is released, no later tick changes n and no later
\* intersection event changes activeSection.
C18_UnmountReleases ==
    [][/\ Registered /\ Registered'
       /\ (~vizMounted /\ ~vizMounted') => n' = n
       /\ (~appMounted /\ ~appMounted') => activeSection' = activeSection]_vars

C18_Witness ==
    /\ ~vizMounted /\ interval = 0 /\ n = 16
    /\ ~appMounted /\ observer = 0 /\ activeSection = 2
    /\ lastOp.op = "unmountApp"

\* C19: for every partition count the chart shows and every bar i in [0, n) the
\* height 0.2 + |sin(2 pi i/n) * 0.6 * e^(-2 i/n)| lies in [0.2, 0.8]; the first
\* bar, where the sine is 0, is exactly 0.2.
C19_BarHeights ==
    /\ n \in {4, 8, 16, 32, 64}
    /\ DOMAIN Bars(n) = 0..(n - 1)
    /\ \A i \in 0..(n - 1) : 2000 <= Bars(n)[i] /\ Bars(n)[i] <= 8000
    /\ Bars(n)[0] = 2000

C19_Witness ==
    /\ lastOp.op = "tick"
    /\ n = 64
    /\ Bars(n)[13] \in 5810..5830
    /\ Bars(n)[48] \in 3330..3345

(* the state of each component, and how many components a step changes *)
ChartState == <<n>>
ThresholdState == <<energy>>
OperatorState == <<activeOps, params, view>>
TrackerState == <<activeSection, queue, scrollTarget, scrollCount>>

ChangedComponents ==
    {c \in {"chart", "threshold", "operator", "tracker"} :
        \/ c = "chart" /\ ChartState' # ChartState
        \/ c = "threshold" /\ ThresholdState' # ThresholdState
        \/ c = "operator" /\ OperatorState' # OperatorState
        \/ c = "tracker" /\ TrackerState' # TrackerState}

\* C20: the widgets and the tracker share no mutable state: under every
\* interleaving a step of one component leaves the state of every other component
\* unchanged.
C20_NoSharedState == [][Cardinality(ChangedComponents) <= 1]_vars

C20_Witness ==
    /\ lastOp.op = "tick"
    /\ n = 16
    /\ energy = EnergyMax
    /\ activeOps.G /\ params.distortion = DistortionMax
    /\ activeSection = 3

(* the toggles flipped one after the other, the keys taken in the order of OpKeys *)
RECURSIVE FlipEach(_, _, _)
FlipEach(ops, keys, i) ==
    IF i > Len(OpKeys)
    THEN ops
    ELSE FlipEach(IF OpKeys[i] \in keys THEN toggled(ops, OpKeys[i]) ELSE ops, keys, i + 1)

ToggleCombinations == [{"E", "C", "X", "G"} -> BOOLEAN]

\* C21: a toggleOp(k) step flips toggle k alone and leaves the other toggles and both
\* sliders as they are; a distortion or speed change leaves the toggles and the
\* other slider as they are; every one of the 16 combinations is reached by
\* toggling the keys in which it differs from the current one, every toggle being
\* enabled in every state.
C21_IndependentToggles ==
    [][/\ lastOp'.op = "toggleOp" =>
            LET key == OpKeys[lastOp'.arg]
            IN /\ activeOps'[key] = ~activeOps[key]
               /\ \A k \in DOMAIN activeOps : k # key => activeOps'[k] = activeOps[k]
               /\ params' = params
       /\ lastOp'.op = "setDistortion" =>
            activeOps' = activeOps /\ params'.speed = params.speed
       /\ lastOp'.op = "setSpeed" =>
            activeOps' = activeOps /\ params'.distortion = params.distortion
       /\ \A i \in 1..Len(OpKeys) : ENABLED toggleOp(OpKeys[i])
       /\ \A target \in ToggleCombinations :
            FlipEach(activeOps, {k \in DOMAIN target : target[k] # activeOps[k]}, 1) = target]_vars

C21_Witness ==
    /\ lastOp = [op |-> "toggleOp", arg |-> 1]
    /\ activeOps = [E |-> FALSE, C |-> FALSE, X |-> FALSE, G |-> FALSE]
    /\ params = [distortion |-> DistortionMax, speed |-> 150]

\* C22: when the scroll requested by a navigate or a jump to a valid target t comes
\* to rest, its intersection event being the last of the batch, activeSection = t;
\* every such request leads to activeSection = t unless a later request replaces
\* it before its scroll has come to rest.
C22_ScrollConfirms ==
    /\ [][ScrollSettles => activeSection' = scrollTarget]_vars
    /\ \A t \in 0..(MaxOf(SectionCounts) - 1) :
          (scrollTarget = t) ~> (activeSection = t \/ scrollTarget \notin {t, NoScroll})

C22_Witness ==
    /\ lastOp = [op |-> "scrollSettles", arg |-> 2]
    /\ scrollCount = 2
    /\ activeSection = 4
    /\ totalSections = 6

(* n after k more ticks *)
RECURSIVE AfterTicks(_, _)
AfterTicks(v, k) == IF k = 0 THEN v ELSE AfterTicks(setN(v), k - 1)

\* C23: while the chart stays mounted and the timer keeps ticking, n takes every
\* value of 4, 8, 16, 32, 64 again and again; from every reachable state n = 64
\* comes within 4 ticks and n = 4 (again) within 5 ticks.
C23_CycleForever ==
    /\ \A v \in {4, 8, 16, 32, 64} : []<>(n = v)
    /\ [](\E k \in 0..4 : AfterTicks(n, k) = 64)
    /\ [](\E k \in 1..5 : AfterTicks(n, k) = 4)
    /\ [](interval > 0 /\ ENABLED Tick)

C23_Witness ==
    /\ lastOp.op = "tick"
    /\ n = 64
    /\ energy = EnergyMin

\* C24: Previous is disabled exactly at activeSection = 0 and Next exactly at
\* activeSection = N - 1; exactly one dot, the one of activeSection, is
\* highlighted; every click on an enabled Previous or Next requests a scroll to a
\* target inside [0, N - 1].
C24_Controls ==
    /\ [](/\ prevDisabled <=> activeSection = 0
          /\ nextDisabled <=> activeSection = totalSections - 1
          /\ {idx \in 0..(totalSections - 1) : dotHighlighted(idx)} = {activeSection}
          /\ ~prevDisabled => InRange(activeSection - 1)
          /\ ~nextDisabled => InRange(activeSection + 1))
    /\ [][(ClickPrevious \/ ClickNext) =>
            /\ scrollCount' = scrollCount + 1
            /\ scrollTarget' \in 0..(totalSections - 1)
            /\ scrollTarget' \in {activeSection - 1, activeSection + 1}]_vars

C24_Witness ==
    /\ totalSections = 6
    /\ activeSection = 5
    /\ nextDisabled /\ ~prevDisabled
    /\ lastOp = [op |-> "navigate", arg |-> -1]
    /\ scrollTarget = 4

\* C25: exactly n bars are rendered, indexed 0..n-1, each under a key of its own;
\* the keys for two different values of n are disjoint, so a tick keeps no bar.
C25_BarsRecomputed ==
    /\ [](/\ DOMAIN Bars(n) = 0..(n - 1)
          /\ Cardinality(BarKeys(n)) = n
          /\ \A other \in {4, 8, 16, 32, 64} \ {n} : BarKeys(n) \cap BarKeys(other) = {})
    /\ [][n' # n => BarKeys(n) \cap BarKeys(n') = {}]_vars

C25_Witness ==
    /\ lastOp.op = "tick"
    /\ n = 32
    /\ Cardinality(BarKeys(n)) = 32

\* C26: scrollToSection(index) never writes activeSection, whatever the index:
\* Previous, Next, dot and hero-button clicks leave it unchanged and only the
\* intersection callback changes it; a Next click that follows a Next click with
\* no callback in between requests the same target activeSection + 1.
C26_OnlyObserverWrites ==
    [][/\ ((\E d \in {-1, 1} : Navigate(d)) \/ (\E k \in JumpArgs : JumpTo(k)))
            => activeSection' = activeSection
       /\ activeSection' # activeSection => OnIntersection
       /\ (Navigate(1) /\ InRange(activeSection + 1))
            => /\ scrollTarget' = activeSection + 1
               /\ (lastOp = [op |-> "navigate", arg |-> 1] => scrollTarget' = scrollTarget)]_vars

C26_Witness ==
    /\ lastOp = [op |-> "navigate", arg |-> 1]
    /\ scrollCount = 2
    /\ scrollTarget = 1
    /\ activeSection = 0
    /\ queue # <<>>

\* C27: for every reachable energy (10..100, 50 at first) energy is not 0, so
\* tauOR is defined; tauOR lies in [30, 300]; thresholdMet holds exactly when
\* tauOR <= 75; on mount the chart shows COLLAPSE_IMMINENT.
C27_TauRange ==
    LET tau == tauOR(energy)
    IN /\ energy # 0 /\ tau.den # 0
       /\ ~RatLess(tau, RatDiv(30, 1))
       /\ ~RatLess(RatDiv(300, 1), tau)
       /\ thresholdMet(energy) <=> ~RatLess(RatDiv(75, 1), tau)
       /\ lastOp.op = "mount" => (energy = 50 /\ OutputState(energy) = "COLLAPSE_IMMINENT")

C27_Witness ==
    /\ lastOp.op = "setEnergy"
    /\ energy = 41
    /\ thresholdMet(energy)
    /\ ToFixed1(tauOR(energy)) = 732

\* C28: in getOpStyle the rotation depends on X alone, the glow on C alone, the
\* scale on (C, G) alone with the values 1, 1.3, 0.8 and 1.04, the colour on
\* (E, X, G) alone with G before X before E before cyan; flipping E changes the
\* colour exactly when X and G are both off and changes nothing else.
C28_AttributeDependencies ==
    LET cur == view.style
        flipped == getOpStyle(toggled(activeOps, "E"), params)
    IN /\ \A b \in ToggleCombinations :
            LET other == getOpStyle(b, params)
            IN /\ b.X = activeOps.X => other.rotate = cur.rotate
               /\ b.C = activeOps.C => other.glow = cur.glow
               /\ (b.C = activeOps.C /\ b.G = activeOps.G) => other.scale = cur.scale
               /\ (b.E = activeOps.E /\ b.X = activeOps.X /\ b.G = activeOps.G)
                    => other.color = cur.color
       /\ cur.scale = (IF activeOps.C THEN (IF activeOps.G THEN 104 ELSE 130)
                                      ELSE (IF activeOps.G THEN 80 ELSE 100))
       /\ cur.color = (IF activeOps.G THEN Purple ELSE IF activeOps.X THEN Red
                       ELSE IF activeOps.E THEN Yellow ELSE Cyan)
       /\ flipped.color # cur.color <=> (~activeOps.X /\ ~activeOps.G)
       /\ flipped.scale = cur.scale /\ flipped.rotate = cur.rotate
       /\ flipped.glow = cur.glow /\ flipped.totalDistortion = cur.totalDistortion

C28_Witness ==
    /\ lastOp = [op |-> "toggleOp", arg |-> 1]
    /\ activeOps = [E |-> TRUE, C |-> TRUE, X |-> FALSE, G |-> TRUE]
    /\ view.style.scale = 104
    /\ view.style.color = Purple

(* the fields the three copies share *)
Shared(style) ==
    [scale |-> style.scale, rotation |-> style.rotate, color |-> style.color,
     glow |-> style.glow]

\* C29: the three copies of the widget, started with E on and C, X, G off and
\* given the same toggleOp clicks, show the same scale, rotation, colour and glow
\* after every step; the slider-less copy distorts by a fixed 20 and morphs exactly
\* when G is on, the others distort by 25 G + 0.4 slider; the third copy floors
\* the speed multiplier at 0.1.
C29_CopiesAgree ==
    LET first == view.style
        second == getOpStyleSecond(copies.second.activeOps)
        third == getOpStyleThird(copies.third.activeOps, copies.third.params)
    IN /\ copies.second.activeOps = activeOps /\ copies.third.activeOps = activeOps
       /\ Shared(first) = Shared(second)
       /\ Shared(first) = Shared(third)
       /\ second.distort = (IF activeOps.G THEN 200 ELSE 0)
       /\ Len(borderRadiusSecond(copies.second.activeOps)) > 1 <=> activeOps.G
       /\ first.totalDistortion = (IF activeOps.G THEN 250 ELSE 0) + 4 * params.distortion
       /\ third.totalDistortion
            = (IF activeOps.G THEN 250 ELSE 0) + 4 * copies.third.params.distortion
       /\ speedMultiplierFloored(copies.third.params.speed)
            = RatMax(RatDiv(1, 10), speedMultiplier(copies.third.params.speed))

C29_Witness ==
    /\ lastOp = [op |-> "toggleOp", arg |-> 4]
    /\ activeOps = [E |-> TRUE, C |-> TRUE, X |-> TRUE, G |-> TRUE]
    /\ getOpStyleSecond(copies.second.activeOps).scale = 104
    /\ copies.third.params.distortion = 30
    /\ params.distortion = 20

(* the keyframe list of the third copy, whose useMemo body is the same *)
ThirdKeyframes ==
    borderRadiusKeyframes(
        getOpStyleThird(copies.third.activeOps, copies.third.params).totalDistortion)

\* C30: for the slider values 0..100 the distortion amount is never exactly 5; with
\* G on the shape morphs for every slider value (amount at least 25); with G off
\* it is the circle exactly for 0..12 and morphs exactly for 13..100; both
\* defaults (20 and 30, G off) morph on mount.
C30_NeverExactlyFive ==
    LET d == view.style.totalDistortion
        morphs == Len(view.keyframes) = 5
    IN /\ params.distortion \in 0..100
       /\ d # 50
       /\ Len(view.keyframes) \in {1, 5}
       /\ activeOps.G => (morphs /\ d >= 250)
       /\ ~activeOps.G => /\ ~morphs <=> params.distortion \in 0..12
                          /\ morphs <=> params.distortion \in 13..100
       /\ lastOp.op = "mount" =>
            /\ params.distortion = 20 /\ ~activeOps.G /\ morphs
            /\ copies.third.params.distortion = 30 /\ ~copies.third.activeOps.G
            /\ Len(ThirdKeyframes) = 5

C30_Witness ==
    /\ lastOp.op = "setDistortion"
    /\ params.distortion = 12
    /\ ~activeOps.G
    /\ view.keyframes = <<Circle>>
    /\ ThirdKeyframes = <<Circle>>

====
